---- MODULE Spec2Model ----
(***************************************************************************)
(* Card store (DataStore) and relationship synchroniser (UIController) of  *)
(* the narrative-cards application, src/app.js.                            *)
(*                                                                         *)
(* A card is a record (a function from field names to values), exactly as  *)
(* the JavaScript object: a field the object does not have is a key that   *)
(* is not in the record's DOMAIN.  The store is the array this.cards.      *)
(* Ids are produced by generateId (time stamp plus random suffix); the     *)
(* model draws them from a counter, so an id is never produced twice.      *)
(* Opaque content fields (name, resumo, nodes, image, updatedAt) are not   *)
(* read by any operation modelled here and are left out of the records.    *)
(* createdAt is read by the legacy numbering pass only: the stored         *)
(* collections handed to that pass and the imported cards carry it, the    *)
(* cards made by createCard are left without it, which places them before  *)
(* the imported cards, as their time stamps do.  The operators whose name   *)
(* ends in At are the DataStore operations with the two time stamps        *)
(* written as the code writes them; StampSpec runs them against a clock.   *)
(* An imported card takes both time stamps from the import, as the code    *)
(* stamps it, whatever stamps the file's card carried.  A rich text field  *)
(* (description, consequences, hooks) is the sequence of the ids its       *)
(* data-card-id attributes name; the import rewrites those ids.            *)
(* renderCardsList sorts the array getAllCards() returns, which is the     *)
(* store's own array, whenever the filter of the list is 'all': the form,  *)
(* delete and import handlers end with it, and so reorder the store.       *)
(***************************************************************************)
EXTENDS Integers, Sequences, FiniteSets, TLC

VARIABLES cards,    \* DataStore.cards: the array of card objects
          nextId,   \* the next id generateId will hand out
          freed,    \* history: per type, the numbers cards held when they were
                    \* deleted (recorded by NumberingSpec only)
          file,     \* history: data.cards of the file the last import read
                    \* (recorded by the import specifications only)
          pushed,   \* history: the cards the last import pushed on the store,
                    \* in the order of the file
          currentFilter  \* UIController.currentFilter: the filter of the list

vars == <<cards, nextId, freed, file, pushed, currentFilter>>

\* ----- bounds of the model
\* ids handed out in one behaviour (cards ever created)
MaxIds == 3
\* largest explicit number a caller asks for
MaxRequest == 2
\* ids handed out in one behaviour in which the type buttons are used on edit
MaxRetypeIds == 2
\* connection chips on one form
MaxConnections == 2
\* largest number typed into the form
MaxFormNumber == 1
\* cards in a store handed to the legacy numbering pass
MaxLegacy == 2
\* largest createdAt time stamp of a legacy card
MaxCreatedAt == 2
\* cards in one imported file, and cards imported in one behaviour
MaxBatch == 2
\* ticks of the clock in one behaviour of StampSpec
MaxClock == 4
\* the ids 1..MaxFileIds are those of the session that wrote the imported file
MaxFileIds == MaxBatch
\* numbers are kept within -MaxNumber..MaxNumber by the guards of the steps
MaxNumber == MaxIds

\* ----- program constants
Types == {"evento", "local", "personagem"}

connectionFields ==
    <<"relatedLocations", "relatedCharacters", "relatedEvents",
      "adjacentLocations", "presentCharacters", "presentLocations", "bonds">>

\* excludeId = null of reorganizeNumbers: no card has this id
NoId == 0

\* ----- JavaScript object helpers
Has(o, k) == k \in DOMAIN o

\* card[field] || []
Get(o, k) == IF k \in DOMAIN o THEN o[k] ELSE <<>>

\* { ...a, ...b }
Merge(a, b) ==
    [k \in DOMAIN a \cup DOMAIN b |-> IF k \in DOMAIN b THEN b[k] ELSE a[k]]

\* cardData.number is truthy: present, not null, not 0
Truthy(o) == Has(o, "number") /\ o.number # 0

Range(s) == {s[i] : i \in DOMAIN s}

\* Array.prototype.includes
Includes(s, x) == \E i \in DOMAIN s : s[i] = x

\* array.filter(id => id !== x)
RECURSIVE Without(_, _)
Without(s, x) ==
    IF s = <<>> THEN <<>>
    ELSE IF Head(s) = x THEN Without(Tail(s), x)
    ELSE <<Head(s)>> \o Without(Tail(s), x)

\* a.filter(id => !b.includes(id))
RECURSIVE Minus(_, _)
Minus(a, b) ==
    IF a = <<>> THEN <<>>
    ELSE IF Includes(b, Head(a)) THEN Minus(Tail(a), b)
    ELSE <<Head(a)>> \o Minus(Tail(a), b)

\* this.cards.findIndex(c => c.id === id); 0 stands for -1
findIndex(cs, id) ==
    IF \E i \in DOMAIN cs : cs[i].id = id
    THEN CHOOSE i \in DOMAIN cs :
            cs[i].id = id /\ \A j \in DOMAIN cs : cs[j].id = id => i <= j
    ELSE 0

\* array[index] = value
ReplaceAt(s, index, value) ==
    SubSeq(s, 1, index - 1) \o <<value>> \o SubSeq(s, index + 1, Len(s))

\* array.splice(index, 1)
Splice(s, index) ==
    [i \in 1..(Len(s) - 1) |-> IF i < index THEN s[i] ELSE s[i + 1]]

\* ----- DataStore

\* Math.max(...cardsOfType.map(c => c.number || 0)) over the cards of a type
RECURSIVE maxNumber(_, _)
maxNumber(cs, type) ==
    IF cs = <<>> THEN 0
    ELSE LET c == Head(cs)
             rest == Tail(cs)
             n == IF Has(c, "number") THEN c.number ELSE 0
         IN IF c.type # type THEN maxNumber(rest, type)
            ELSE IF \E i \in DOMAIN rest : rest[i].type = type
                 THEN LET m == maxNumber(rest, type) IN IF n > m THEN n ELSE m
                 ELSE n

\* getNextNumber counting the cards of the type instead of taking the largest number
getNextNumberCount(cs, type) ==
    Cardinality({i \in DOMAIN cs : cs[i].type = type}) + 1

getNextNumber(cs, type) ==
    IF ~\E i \in DOMAIN cs : cs[i].type = type THEN 1
    ELSE maxNumber(cs, type) + 1

\* Every card of the type, except excludeId, whose number is >= newNumber is
\* visited once (in ascending number order) and its number incremented.
reorganizeNumbers(cs, type, newNumber, excludeId) ==
    [i \in DOMAIN cs |->
        IF cs[i].type = type /\ cs[i].id # excludeId /\ Has(cs[i], "number")
           /\ cs[i].number >= newNumber
        THEN [cs[i] EXCEPT !.number = @ + 1]
        ELSE cs[i]]

\* createCard without the "< 1" test: only a missing number is replaced
createCardNoRangeCheck(cs, cardData, newId) ==
    LET auto == ~Truthy(cardData)
        num == IF auto THEN getNextNumber(cs, cardData.type) ELSE cardData.number
        existingCard == \E i \in DOMAIN cs :
                            cs[i].type = cardData.type /\ cs[i].number = num
        shifted == IF ~auto /\ existingCard
                   THEN reorganizeNumbers(cs, cardData.type, num, NoId)
                   ELSE cs
    IN Append(shifted, Merge([id |-> newId], Merge(cardData, [number |-> num])))

createCard(cs, cardData, newId) ==
    LET auto == ~Truthy(cardData) \/ cardData.number < 1
        num == IF auto THEN getNextNumber(cs, cardData.type) ELSE cardData.number
        existingCard == \E i \in DOMAIN cs :
                            cs[i].type = cardData.type /\ cs[i].number = num
        shifted == IF ~auto /\ existingCard
                   THEN reorganizeNumbers(cs, cardData.type, num, NoId)
                   ELSE cs
    IN Append(shifted, Merge([id |-> newId], Merge(cardData, [number |-> num])))

\* updateCard giving the card the next free number of its type when the
\* partial carries none
updateCardAutoNumber(cs, id, cardData) ==
    LET index == findIndex(cs, id) IN
    IF index = 0 THEN cs
    ELSE
        LET existingCard == cs[index]
            changing == Truthy(cardData) /\ cardData.number # existingCard.number
            conflictCard ==
                changing /\ Has(cardData, "type") /\
                \E i \in DOMAIN cs :
                    /\ cs[i].type = cardData.type
                    /\ cs[i].number = cardData.number
                    /\ cs[i].id # id
            shifted == IF conflictCard
                       THEN reorganizeNumbers(cs, cardData.type, cardData.number, id)
                       ELSE cs
            data == IF ~Truthy(cardData)
                    THEN Merge(cardData,
                               [number |-> getNextNumber(cs, existingCard.type)])
                    ELSE cardData
        IN ReplaceAt(shifted, index, Merge(shifted[index], data))

\* the new collection of updateCard; when id is not found it is the
\* collection as it was
updateCard(cs, id, cardData) ==
    LET index == findIndex(cs, id) IN
    IF index = 0 THEN cs
    ELSE
        LET existingCard == cs[index]
            changing == Truthy(cardData) /\ cardData.number # existingCard.number
            conflictCard ==
                changing /\ Has(cardData, "type") /\
                \E i \in DOMAIN cs :
                    /\ cs[i].type = cardData.type
                    /\ cs[i].number = cardData.number
                    /\ cs[i].id # id
            shifted == IF conflictCard
                       THEN reorganizeNumbers(cs, cardData.type, cardData.number, id)
                       ELSE cs
            data == IF ~Truthy(cardData)
                    THEN Merge(cardData, [number |-> existingCard.number])
                    ELSE cardData
        IN ReplaceAt(shifted, index, Merge(shifted[index], data))

scrub(card, id) ==
    [k \in DOMAIN card |->
        IF k \in {"adjacentLocations", "presentCharacters", "bonds"}
        THEN Without(card[k], id)
        ELSE card[k]]

\* deleteCard closing the gap: the cards of the type numbered above the deleted
\* card move down by one
deleteCardRenumber(cs, id) ==
    LET index == findIndex(cs, id) IN
    IF index = 0 THEN cs
    ELSE LET gone == cs[index]
             rest == Splice([i \in DOMAIN cs |-> scrub(cs[i], id)], index)
         IN [i \in DOMAIN rest |->
                IF rest[i].type = gone.type /\ rest[i].number > gone.number
                THEN [rest[i] EXCEPT !.number = @ - 1]
                ELSE rest[i]]

\* deleteCard without the index !== -1 test: splice(-1, 1) takes the last card
deleteCardNoCheck(cs, id) ==
    LET index == findIndex(cs, id)
        scrubbed == [i \in DOMAIN cs |-> scrub(cs[i], id)]
    IN IF index = 0 THEN (IF cs = <<>> THEN cs ELSE Splice(scrubbed, Len(cs)))
       ELSE Splice(scrubbed, index)

deleteCard(cs, id) ==
    LET index == findIndex(cs, id) IN
    IF index = 0 THEN cs
    ELSE Splice([i \in DOMAIN cs |-> scrub(cs[i], id)], index)

\* return null of updateCard
NoCard == [x \in {} |-> 0]

\* what updateCard returns: the updated card, or null
updateCardReturn(cs, id, cardData) ==
    IF findIndex(cs, id) = 0 THEN NoCard
    ELSE updateCard(cs, id, cardData)[findIndex(cs, id)]

\* what deleteCard returns
deleteCardReturn(cs, id) == findIndex(cs, id) # 0

getCardIds(cs) == {cs[i].id : i \in DOMAIN cs}

\* this.cards.find(c => c.id === id), for an id that is in the store
getCard(cs, id) == cs[findIndex(cs, id)]

\* new Date(card.createdAt || 0), as a number
createdAtOf(card) == IF Has(card, "createdAt") THEN card.createdAt ELSE 0

\* the indices S of the store in the order of .sort((a, b) => dateA - dateB):
\* oldest first, cards of equal date in array order
RECURSIVE sortByCreatedAt(_, _)
sortByCreatedAt(cs, S) ==
    IF S = {} THEN <<>>
    ELSE LET first == CHOOSE i \in S : \A j \in S :
                          \/ createdAtOf(cs[i]) < createdAtOf(cs[j])
                          \/ createdAtOf(cs[i]) = createdAtOf(cs[j]) /\ i <= j
         IN <<first>> \o sortByCreatedAt(cs, S \ {first})

\* the types in the order ensureAllCardsHaveNumbers visits them
types == <<"evento", "local", "personagem">>

\* cardsOfType.forEach of a pass that numbers every card anew and moves the
\* counter past the number the card had
RECURSIVE renumberInOrder(_, _, _)
renumberInOrder(cs, order, nextNumber) ==
    IF order = <<>> THEN cs
    ELSE LET i == Head(order)
             old == IF Truthy(cs[i]) THEN cs[i].number ELSE 0
             top == IF old > nextNumber THEN old ELSE nextNumber
         IN renumberInOrder(ReplaceAt(cs, i, Merge(cs[i], [number |-> nextNumber])),
                            Tail(order), top + 1)

\* the legacy pass numbering every card anew
ensureAllCardsRenumbered(cs) ==
    LET ofType(t) == sortByCreatedAt(cs, {i \in DOMAIN cs : cs[i].type = t})
    IN renumberInOrder(renumberInOrder(renumberInOrder(cs,
            ofType(types[1]), 1), ofType(types[2]), 1), ofType(types[3]), 1)

\* cardsOfType.forEach(card => ...): the cards at the indices of order, in
\* that order, nextNumber being the counter
RECURSIVE numberInOrder(_, _, _)
numberInOrder(cs, order, nextNumber) ==
    IF order = <<>> THEN cs
    ELSE LET i == Head(order)
             card == cs[i]
             num == IF ~Truthy(card) \/ card.number < 1 THEN nextNumber
                    ELSE card.number
             top == IF num > nextNumber THEN num ELSE nextNumber
         IN numberInOrder(ReplaceAt(cs, i, Merge(card, [number |-> num])),
                          Tail(order), top + 1)

\* types.forEach(type => ...), from type i on
RECURSIVE ensureTypes(_, _)
ensureTypes(cs, i) ==
    IF i > Len(types) THEN cs
    ELSE ensureTypes(
            numberInOrder(cs,
                sortByCreatedAt(cs, {j \in DOMAIN cs : cs[j].type = types[i]}), 1),
            i + 1)

ensureAllCardsHaveNumbers(cs) == ensureTypes(cs, 1)

\* ----- DataStore, with createdAt and updatedAt (now is new Date())

\* card.number = card.number + 1; card.updatedAt = new Date().toISOString()
reorganizeNumbersAt(cs, type, newNumber, excludeId, now) ==
    [i \in DOMAIN cs |->
        IF cs[i].type = type /\ cs[i].id # excludeId /\ Has(cs[i], "number")
           /\ cs[i].number >= newNumber
        THEN Merge(cs[i], [number |-> cs[i].number + 1, updatedAt |-> now])
        ELSE cs[i]]

\* { id, createdAt, updatedAt, ...cardData }
createCardAt(cs, cardData, newId, now) ==
    LET auto == ~Truthy(cardData) \/ cardData.number < 1
        num == IF auto THEN getNextNumber(cs, cardData.type) ELSE cardData.number
        existingCard == \E i \in DOMAIN cs :
                            cs[i].type = cardData.type /\ cs[i].number = num
        shifted == IF ~auto /\ existingCard
                   THEN reorganizeNumbersAt(cs, cardData.type, num, NoId, now)
                   ELSE cs
    IN Append(shifted, Merge([id |-> newId, createdAt |-> now, updatedAt |-> now],
                             Merge(cardData, [number |-> num])))

\* { ...this.cards[index], ...cardData, updatedAt }
updateCardAt(cs, id, cardData, now) ==
    LET index == findIndex(cs, id) IN
    IF index = 0 THEN cs
    ELSE
        LET existingCard == cs[index]
            changing == Truthy(cardData) /\ cardData.number # existingCard.number
            conflictCard ==
                changing /\ Has(cardData, "type") /\
                \E i \in DOMAIN cs :
                    /\ cs[i].type = cardData.type
                    /\ cs[i].number = cardData.number
                    /\ cs[i].id # id
            shifted == IF conflictCard
                       THEN reorganizeNumbersAt(cs, cardData.type, cardData.number,
                                                id, now)
                       ELSE cs
            data == IF ~Truthy(cardData)
                    THEN Merge(cardData, [number |-> existingCard.number])
                    ELSE cardData
        IN ReplaceAt(shifted, index,
                     Merge(Merge(shifted[index], data), [updatedAt |-> now]))

\* ----- UIController: the form and the relationship synchroniser

\* connections.filter(c => { const card = getCard(c); return card && card.type === type })
RECURSIVE filterByType(_, _, _)
filterByType(cs, connections, type) ==
    IF connections = <<>> THEN <<>>
    ELSE LET c == Head(connections)
             keep == c \in getCardIds(cs) /\ getCard(cs, c).type = type
         IN (IF keep THEN <<c>> ELSE <<>>) \o filterByType(cs, Tail(connections), type)

\* cardData as handleFormSubmit builds it: the selected type, the number typed
\* (cardNumber is the empty record for an empty input) and the connection
\* chips split over the fields of the selected type
formCardData(cs, selectedType, cardNumber, connections) ==
    LET base == Merge([type |-> selectedType], cardNumber) IN
    IF selectedType = "evento" THEN
        Merge(base, [relatedLocations |-> filterByType(cs, connections, "local"),
                     relatedCharacters |-> filterByType(cs, connections, "personagem")])
    ELSE IF selectedType = "local" THEN
        Merge(base, [adjacentLocations |-> filterByType(cs, connections, "local"),
                     presentCharacters |-> filterByType(cs, connections, "personagem"),
                     relatedEvents |-> filterByType(cs, connections, "evento")])
    ELSE IF selectedType = "personagem" THEN
        Merge(base, [bonds |-> filterByType(cs, connections, "personagem"),
                     presentLocations |-> filterByType(cs, connections, "local"),
                     relatedEvents |-> filterByType(cs, connections, "evento")])
    ELSE base

\* previousConnections of handleFormSubmit: five of the seven fields
previousConnectionsOf(existingCard) ==
    [relatedLocations |-> Get(existingCard, "relatedLocations"),
     relatedCharacters |-> Get(existingCard, "relatedCharacters"),
     adjacentLocations |-> Get(existingCard, "adjacentLocations"),
     presentCharacters |-> Get(existingCard, "presentCharacters"),
     bonds |-> Get(existingCard, "bonds")]

\* previousConnections = null
NoPrevious == [x \in {} |-> 0]

\* connectionMappings[cardType] as <<fieldName, targetField>> pairs, in key order
connectionMappings(cardType) ==
    IF cardType = "evento" THEN
        << <<"relatedLocations", "relatedEvents">>,
           <<"relatedCharacters", "relatedEvents">> >>
    ELSE IF cardType = "local" THEN
        << <<"adjacentLocations", "adjacentLocations">>,
           <<"presentCharacters", "presentLocations">> >>
    ELSE IF cardType = "personagem" THEN
        << <<"bonds", "bonds">> >>
    ELSE <<>>

\* the field addMutualConnection writes on the target
fieldToUpdate(targetType, sourceType, targetField) ==
    IF targetType = "local" THEN
        IF sourceType = "evento" THEN "relatedEvents"
        ELSE IF sourceType = "local" THEN "adjacentLocations"
        ELSE IF sourceType = "personagem" THEN "presentCharacters"
        ELSE targetField
    ELSE IF targetType = "personagem" THEN
        IF sourceType = "evento" THEN "relatedEvents"
        ELSE IF sourceType = "local" THEN "presentLocations"
        ELSE IF sourceType = "personagem" THEN "bonds"
        ELSE targetField
    ELSE IF targetType = "evento" THEN
        IF sourceType = "local" THEN "relatedLocations"
        ELSE IF sourceType = "personagem" THEN "relatedCharacters"
        ELSE targetField
    ELSE targetField

addMutualConnection(cs, targetCardId, sourceCardId, targetField, sourceType) ==
    IF targetCardId \notin getCardIds(cs) THEN cs
    ELSE
        LET targetCard == getCard(cs, targetCardId)
            field == fieldToUpdate(targetCard.type, sourceType, targetField)
            current == Get(targetCard, field)
        IN IF Includes(current, sourceCardId) THEN cs
           ELSE updateCard(cs, targetCardId,
                           [k \in {field} |-> Append(current, sourceCardId)])

\* a removal that empties every field listing the source card
RECURSIVE removeFromFieldsClearing(_, _, _, _)
removeFromFieldsClearing(cs, targetCardId, sourceCardId, i) ==
    IF i > Len(connectionFields) THEN cs
    ELSE
        LET field == connectionFields[i]
            targetCard == getCard(cs, targetCardId)
            stripped ==
                IF Has(targetCard, field) /\ Includes(targetCard[field], sourceCardId)
                THEN updateCard(cs, targetCardId, [k \in {field} |-> <<>>])
                ELSE cs
        IN removeFromFieldsClearing(stripped, targetCardId, sourceCardId, i + 1)

\* the forEach over connectionFields of removeMutualConnection, from field i on
RECURSIVE removeFromFields(_, _, _, _)
removeFromFields(cs, targetCardId, sourceCardId, i) ==
    IF i > Len(connectionFields) THEN cs
    ELSE
        LET field == connectionFields[i]
            targetCard == getCard(cs, targetCardId)
            stripped ==
                IF Has(targetCard, field) /\ Includes(targetCard[field], sourceCardId)
                THEN updateCard(cs, targetCardId,
                                [k \in {field} |-> Without(targetCard[field], sourceCardId)])
                ELSE cs
        IN removeFromFields(stripped, targetCardId, sourceCardId, i + 1)

removeMutualConnection(cs, targetCardId, sourceCardId) ==
    IF targetCardId \notin getCardIds(cs) THEN cs
    ELSE removeFromFields(cs, targetCardId, sourceCardId, 1)

\* a forEach over the added ids that ends at the first id that is the id of
\* no card
RECURSIVE addEachUntilUnknown(_, _, _, _, _)
addEachUntilUnknown(cs, targetIds, sourceCardId, targetField, sourceType) ==
    IF targetIds = <<>> \/ Head(targetIds) \notin getCardIds(cs) THEN cs
    ELSE addEachUntilUnknown(
            addMutualConnection(cs, Head(targetIds), sourceCardId,
                                targetField, sourceType),
            Tail(targetIds), sourceCardId, targetField, sourceType)

\* addedConnections.forEach(targetId => addMutualConnection(...))
RECURSIVE addEach(_, _, _, _, _)
addEach(cs, targetIds, sourceCardId, targetField, sourceType) ==
    IF targetIds = <<>> THEN cs
    ELSE addEach(addMutualConnection(cs, Head(targetIds), sourceCardId,
                                     targetField, sourceType),
                 Tail(targetIds), sourceCardId, targetField, sourceType)

\* removedConnections.forEach(targetId => removeMutualConnection(...))
RECURSIVE removeEach(_, _, _)
removeEach(cs, targetIds, sourceCardId) ==
    IF targetIds = <<>> THEN cs
    ELSE removeEach(removeMutualConnection(cs, Head(targetIds), sourceCardId),
                    Tail(targetIds), sourceCardId)

\* Object.entries(mappings).forEach(...), from mapping i on
RECURSIVE syncFields(_, _, _, _, _, _)
syncFields(cs, cardId, cardType, cardData, previousConnections, i) ==
    LET mappings == connectionMappings(cardType) IN
    IF i > Len(mappings) THEN cs
    ELSE
        LET fieldName == mappings[i][1]
            targetField == mappings[i][2]
            currentConnections == Get(cardData, fieldName)
            previousConns == Get(previousConnections, fieldName)
            addedConnections == Minus(currentConnections, previousConns)
            removedConnections == Minus(previousConns, currentConnections)
            added == addEach(cs, addedConnections, cardId, targetField, cardType)
            removed == removeEach(added, removedConnections, cardId)
        IN syncFields(removed, cardId, cardType, cardData, previousConnections, i + 1)

updateMutualConnections(cs, card, cardData, previousConnections) ==
    syncFields(cs, card.id, card.type, cardData, previousConnections, 1)

\* typeOrder[type] || 99
typeOrder(card) ==
    IF ~Has(card, "type") THEN 99
    ELSE IF card.type = "evento" THEN 1
    ELSE IF card.type = "local" THEN 2
    ELSE IF card.type = "personagem" THEN 3
    ELSE 99

\* card.number || 999
listNumber(card) == IF Truthy(card) THEN card.number ELSE 999

\* the comparator of renderCardsList is negative for (a, b)
listedBefore(a, b) ==
    \/ typeOrder(a) < typeOrder(b)
    \/ typeOrder(a) = typeOrder(b) /\ listNumber(a) < listNumber(b)

\* card put in its place in a sorted list, after the cards it does not precede
RECURSIVE insertListed(_, _)
insertListed(sorted, card) ==
    IF sorted = <<>> THEN <<card>>
    ELSE IF listedBefore(card, Head(sorted)) THEN <<card>> \o sorted
    ELSE <<Head(sorted)>> \o insertListed(Tail(sorted), card)

\* filteredCards.sort(...): Array.prototype.sort is stable
RECURSIVE sortListed(_, _)
sortListed(sorted, rest) ==
    IF rest = <<>> THEN sorted
    ELSE sortListed(insertListed(sorted, Head(rest)), Tail(rest))

\* the filters of the list: every card, or the cards of one type
Filters == {"all"} \cup Types

\* DataStore.cards after renderCardsList(): with the filter 'all' the array
\* sorted is the array getAllCards() returns, the store's own; with another
\* filter it is the copy made by filter()
renderCardsList(cs, filter) ==
    IF filter = "all" THEN sortListed(<<>>, cs) ELSE cs

\* the store after setFilter(filter)
setFilter(cs, filter) == renderCardsList(cs, filter)

\* the store after filterCardsList(query): searchCards returns a copy, an
\* empty query hands the store's own array to renderCardsList
filterCardsList(cs, query, filter) ==
    IF query = "" THEN renderCardsList(cs, filter) ELSE cs

\* handleFormSubmit; editingCardId = NoId is the create form
handleFormSubmit(cs, editingCardId, selectedType, cardNumber, connections, newId, filter) ==
    LET cardData == formCardData(cs, selectedType, cardNumber, connections) IN
    IF editingCardId # NoId THEN
        LET previousConnections == previousConnectionsOf(getCard(cs, editingCardId))
            updated == updateCard(cs, editingCardId, cardData)
        IN renderCardsList(
            updateMutualConnections(updated, getCard(updated, editingCardId),
                                    cardData, previousConnections),
            filter)
    ELSE
        LET created == createCard(cs, cardData, newId)
        IN renderCardsList(
            updateMutualConnections(created, created[Len(created)],
                                    cardData, NoPrevious),
            filter)

\* connections.forEach(targetId => removeMutualConnection(targetId, cardId, null))
\* for every field of connectionFields, from field i on
RECURSIVE removeAllFrom(_, _, _)
removeAllFrom(cs, card, i) ==
    IF i > Len(connectionFields) THEN cs
    ELSE removeAllFrom(removeEach(cs, Get(card, connectionFields[i]), card.id),
                       card, i + 1)

\* no reciprocal stripping at all before the delete
removeNoMutualConnections(cs, card) == cs

removeAllMutualConnections(cs, card) == removeAllFrom(cs, card, 1)

\* confirmDeleteCard, the user having confirmed; closeCardDetail and the
\* handler itself call renderCardsList
confirmDeleteCard(cs, cardId, filter) ==
    IF cardId \notin getCardIds(cs) THEN cs
    ELSE renderCardsList(
            deleteCard(removeAllMutualConnections(cs, getCard(cs, cardId)), cardId),
            filter)

\* the connection chips loaded by editCard: every id of the card's seven fields
loadedConnections(card) ==
    UNION {Range(Get(card, connectionFields[i])) : i \in DOMAIN connectionFields}

\* ----- export and import

\* A value of the parsed file whose JSON type the code tests is a record with
\* one field named after the type: [array |-> <<...>>], [string |-> ...],
\* [object |-> ...], [number |-> ...].
isArray(v) == Has(v, "array")

\* exportData of exportCards, as JSON.parse reads it back
exportCards(cs) == [version |-> "1.0", cards |-> [array |-> cs]]

\* !data.cards || !Array.isArray(data.cards): the import throws before it
\* touches the store and the catch branch reports the invalid file
invalidFormat(data) == ~Has(data, "cards") \/ ~isArray(data.cards)

\* const oldId = card.id: the key of idMapping for a card; NoId stands for the
\* undefined id of a card without id
keyOf(card) == IF Has(card, "id") THEN card.id ELSE NoId

\* idMapping after the first pass has visited the first n cards of the file:
\* card k gets the new id firstNewId + k - 1, a later card with the same key
\* overwrites the entry
idMapping(batch, firstNewId, n) ==
    [key \in {keyOf(batch[k]) : k \in 1..n} |->
        firstNewId - 1 +
            CHOOSE k \in 1..n :
                /\ keyOf(batch[k]) = key
                /\ \A j \in 1..n : keyOf(batch[j]) = key => j <= k]

\* ids.map(id => idMapping[id] || id).filter(id => id)
RECURSIVE remap(_, _)
remap(ids, mapping) ==
    IF ids = <<>> THEN <<>>
    ELSE LET id == Head(ids)
             to == IF id \in DOMAIN mapping THEN mapping[id] ELSE id
         IN (IF to = NoId THEN <<>> ELSE <<to>>) \o remap(Tail(ids), mapping)

\* the fields whose references importCards rewrites
remappedFields ==
    {"adjacentLocations", "presentCharacters", "bonds",
     "relatedLocations", "relatedCharacters"}

\* the rich text fields updateCardIdsInContent rewrites
contentFields == {"description", "consequences", "hooks"}

\* A rich text is [string |-> ids]: ids are the values of the data-card-id
\* attributes of the text, in the order of the text; the text between them
\* is left alone by every operation and is not represented.
\* content.replace(/data-card-id="([^"]+)"/g, ...): an attribute whose value
\* is a key of idMapping takes the new id, any other attribute stays
RECURSIVE updateCardIdsInContent(_, _)
updateCardIdsInContent(ids, mapping) ==
    IF ids = <<>> THEN <<>>
    ELSE LET oldId == Head(ids)
         IN <<IF oldId \in DOMAIN mapping THEN mapping[oldId] ELSE oldId>>
                \o updateCardIdsInContent(Tail(ids), mapping)

\* newCard of the second pass for one card of the file; cs is the store the
\* card is pushed on, now the time of the import, which stamps createdAt and
\* updatedAt over whatever the file's card carried
newCardOf(cs, card, mapping, now) ==
    LET withId == Merge(card, [id |-> mapping[keyOf(card)]])
        remapped == [k \in DOMAIN withId |->
                        IF k \in remappedFields THEN remap(withId[k], mapping)
                        ELSE IF k \in contentFields /\ Has(withId[k], "string")
                        THEN [string |-> updateCardIdsInContent(withId[k].string,
                                                                mapping)]
                        ELSE withId[k]]
        numbered == IF ~Truthy(remapped)
                    THEN Merge(remapped,
                               [number |-> getNextNumber(cs, remapped.type)])
                    ELSE remapped
    IN Merge(numbered, [createdAt |-> now, updatedAt |-> now])

\* an import that fills idMapping while it inserts: card k is rewritten with
\* the entries of the cards up to k only
RECURSIVE importEachOnePass(_, _, _, _)
importEachOnePass(cs, batch, k, firstNewId) ==
    IF k > Len(batch) THEN cs
    ELSE importEachOnePass(
            Append(cs, newCardOf(cs, batch[k], idMapping(batch, firstNewId, k),
                                 firstNewId)),
            batch, k + 1, firstNewId)

importCardsOnePass(cs, data, firstNewId) ==
    IF invalidFormat(data) THEN cs
    ELSE ensureAllCardsHaveNumbers(
            importEachOnePass(cs, data.cards.array, 1, firstNewId))

\* the second pass raises a TypeError on the card: one of its rich text fields
\* is truthy and is not a string, so content.replace is not a function
throws(card) ==
    \E f \in contentFields :
        /\ Has(card, f)
        /\ ~Has(card[f], "string")
        /\ ~(Has(card[f], "number") /\ card[f].number = 0)

\* the second pass, from card k of the file on: idMapping is complete; the
\* forEach ends at the first card that raises an error
RECURSIVE importEach(_, _, _, _)
importEach(cs, batch, k, firstNewId) ==
    IF k > Len(batch) \/ throws(batch[k]) THEN cs
    ELSE importEach(
            Append(cs, newCardOf(cs, batch[k],
                                 idMapping(batch, firstNewId, Len(batch)),
                                 firstNewId)),
            batch, k + 1, firstNewId)

\* an import that empties the collection before it looks at the file
importCardsReplacing(cs, data, firstNewId) ==
    IF invalidFormat(data) THEN <<>>
    ELSE ensureAllCardsHaveNumbers(importEach(<<>>, data.cards.array, 1, firstNewId))

\* the try block of reader.onload ends in the catch branch
importFails(data) ==
    \/ invalidFormat(data)
    \/ \E k \in DOMAIN data.cards.array : throws(data.cards.array[k])

\* dataStore.cards when the try block of reader.onload reaches
\* ui.renderCardsList() or the catch branch; the ids generateId hands out
\* are firstNewId, firstNewId + 1, ..., and the id counter is the clock that
\* stamps createdAt.  An error raised in the second pass goes to the catch
\* branch: ensureAllCardsHaveNumbers is not reached.
importedStore(cs, data, firstNewId) ==
    IF invalidFormat(data) THEN cs
    ELSE LET batch == data.cards.array
             added == importEach(cs, batch, 1, firstNewId)
         IN IF \E k \in DOMAIN batch : throws(batch[k]) THEN added
            ELSE ensureAllCardsHaveNumbers(added)

\* reader.onload of importCards for the parsed file data: the list is
\* rendered when the try block ends without error
importCards(cs, data, firstNewId, filter) ==
    IF importFails(data) THEN importedStore(cs, data, firstNewId)
    ELSE renderCardsList(importedStore(cs, data, firstNewId), filter)

\* ----- the store's operations as steps

InBounds(cs) ==
    \A i \in DOMAIN cs : cs[i].number <= MaxNumber /\ cs[i].number >= -MaxNumber

\* the numbers a caller may pass: absent, 0, a negative number, 1..MaxRequest
NumberArgs == {[x \in {} |-> 0]} \cup {[number |-> n] : n \in (-1)..MaxRequest}

TypeArgs == {[x \in {} |-> 0]} \cup {[type |-> t] : t \in Types}

Init ==
    /\ cards = <<>>
    /\ nextId = 1
    /\ freed = [t \in Types |-> {}]
    /\ file = <<>>
    /\ pushed = <<>>
    /\ currentFilter = "all"

\* dataStore.createCard(cardData) with a type and any number argument
CreateCard ==
    \E t \in Types, n \in NumberArgs :
        LET cardData == Merge([type |-> t], n) IN
        /\ nextId <= MaxIds
        /\ InBounds(createCard(cards, cardData, nextId))
        /\ cards' = createCard(cards, cardData, nextId)
        /\ nextId' = nextId + 1
        /\ UNCHANGED <<freed, file, pushed, currentFilter>>

\* dataStore.updateCard(id, partial): partial holds a type or not, a number or not
UpdateCard ==
    \E id \in 1..MaxIds, t \in TypeArgs, n \in NumberArgs :
        LET cardData == Merge(t, n) IN
        /\ id < nextId
        /\ InBounds(updateCard(cards, id, cardData))
        /\ cards' = updateCard(cards, id, cardData)
        /\ UNCHANGED <<nextId, freed, file, pushed, currentFilter>>

\* dataStore.deleteCard(id), for an id in the store or one already deleted
DeleteCard ==
    \E id \in 1..MaxIds :
        /\ id < nextId
        /\ cards' = deleteCard(cards, id)
        /\ UNCHANGED <<nextId, freed, file, pushed, currentFilter>>

Next == CreateCard \/ UpdateCard \/ DeleteCard

Spec == Init /\ [][Next]_vars

\* ----- create and delete only, with the freed numbers recorded

CreateNumbered ==
    \E t \in Types, n \in NumberArgs :
        LET cardData == Merge([type |-> t], n) IN
        /\ nextId <= MaxIds
        /\ InBounds(createCard(cards, cardData, nextId))
        /\ cards' = createCard(cards, cardData, nextId)
        /\ nextId' = nextId + 1
        /\ UNCHANGED <<freed, file, pushed, currentFilter>>

DeleteNumbered ==
    \E id \in getCardIds(cards) :
        /\ cards' = deleteCard(cards, id)
        /\ freed' = [freed EXCEPT ![getCard(cards, id).type] =
                                        @ \cup {getCard(cards, id).number}]
        /\ UNCHANGED <<nextId, file, pushed, currentFilter>>

NumberingNext == CreateNumbered \/ DeleteNumbered

NumberingSpec == Init /\ [][NumberingNext]_vars

\* ----- saves and deletes through the form

\* sequences without repetition over S, at most MaxConnections long
DistinctSeqs(S) ==
    {s \in UNION {[1..n -> S] : n \in 0..MaxConnections} :
        \A i, j \in DOMAIN s : i # j => s[i] # s[j]}

\* the number field of the form left empty (cardNumber = null)
NoNumber == [x \in {} |-> 0]

\* the number field of the form: empty, or a number typed by the user
FormNumbers == {NoNumber} \cup {[number |-> n] : n \in 1..MaxFormNumber}

\* the create form submitted
SaveNew ==
    \E t \in Types, n \in FormNumbers, conns \in DistinctSeqs(getCardIds(cards)) :
        LET saved == handleFormSubmit(cards, NoId, t, n, conns, nextId,
                                      currentFilter) IN
        /\ nextId <= MaxIds
        /\ InBounds(saved)
        /\ cards' = saved
        /\ nextId' = nextId + 1
        /\ UNCHANGED <<freed, file, pushed, currentFilter>>

\* the chips of the edit form of a card: any selection of the other cards (the
\* select lists every card but the one edited) and of the ids editCard loaded
EditChips(id) ==
    DistinctSeqs((getCardIds(cards) \ {id}) \cup loadedConnections(getCard(cards, id)))

\* the edit form of an existing card submitted with the type editCard selected
SaveEdit ==
    \E id \in getCardIds(cards), n \in FormNumbers :
        \E conns \in EditChips(id) :
            LET saved == handleFormSubmit(cards, id, getCard(cards, id).type,
                                          n, conns, nextId, currentFilter) IN
            /\ InBounds(saved)
            /\ cards' = saved
            /\ UNCHANGED <<nextId, freed, file, pushed, currentFilter>>

\* confirmDeleteCard confirmed by the user
ConfirmDelete ==
    \E id \in getCardIds(cards) :
        /\ cards' = confirmDeleteCard(cards, id, currentFilter)
        /\ UNCHANGED <<nextId, freed, file, pushed, currentFilter>>

\* a filter button clicked: setFilter(filter)
SetFilter ==
    \E filter \in Filters :
        /\ currentFilter' = filter
        /\ cards' = setFilter(cards, filter)
        /\ UNCHANGED <<nextId, freed, file, pushed>>

\* the search box typed in or cleared: filterCardsList(query)
FilterCardsList ==
    \E query \in {"", "a"} :
        /\ cards' = filterCardsList(cards, query, currentFilter)
        /\ UNCHANGED <<nextId, freed, file, pushed, currentFilter>>

FormNext == SaveNew \/ SaveEdit \/ ConfirmDelete \/ SetFilter \/ FilterCardsList

FormSpec == Init /\ [][FormNext]_vars

\* ----- the same, with the type buttons used while editing; the filter of
\* the list is left at 'all', its initial value

\* the create form submitted with the number field left empty
SaveNewFew ==
    \E t \in Types, conns \in DistinctSeqs(getCardIds(cards)) :
        LET saved == handleFormSubmit(cards, NoId, t, NoNumber, conns, nextId,
                                      currentFilter) IN
        /\ nextId <= MaxRetypeIds
        /\ InBounds(saved)
        /\ cards' = saved
        /\ nextId' = nextId + 1
        /\ UNCHANGED <<freed, file, pushed, currentFilter>>

\* the edit form submitted after any type button was clicked (selectType does
\* not look at editingCardId), the number field cleared
SaveEditRetyped ==
    \E id \in getCardIds(cards), t \in Types :
        \E conns \in EditChips(id) :
            LET saved == handleFormSubmit(cards, id, t, NoNumber, conns, nextId,
                                          currentFilter) IN
            /\ InBounds(saved)
            /\ cards' = saved
            /\ UNCHANGED <<nextId, freed, file, pushed, currentFilter>>

DeleteFew ==
    \E id \in getCardIds(cards) :
        /\ cards' = confirmDeleteCard(cards, id, currentFilter)
        /\ UNCHANGED <<nextId, freed, file, pushed, currentFilter>>

RetypeNext == SaveNewFew \/ SaveEditRetyped \/ DeleteFew

RetypeSpec == Init /\ [][RetypeNext]_vars

\* ----- the legacy numbering pass on a stored collection

\* createdAt of a stored card
CreatedAtArgs == {[createdAt |-> d] : d \in 1..MaxCreatedAt}

\* stored collections of at most MaxLegacy cards: any type, number missing,
\* 0, negative or valid, any createdAt order; two cards of a type may hold
\* one valid number, as after importCards has pushed a file's cards
LegacyStores ==
    UNION {[1..n -> [type : Types, n : NumberArgs, d : CreatedAtArgs]]
            : n \in 0..MaxLegacy}

LegacyInit ==
    /\ \E s \in LegacyStores :
            cards = [i \in DOMAIN s |->
                        Merge([id |-> i, type |-> s[i].type], Merge(s[i].n, s[i].d))]
    /\ nextId = Len(cards) + 1
    /\ freed = [t \in Types |-> {}]
    /\ file = <<>>
    /\ pushed = <<>>
    /\ currentFilter = "all"

\* dataStore.ensureAllCardsHaveNumbers()
EnsureAllCardsHaveNumbers ==
    /\ cards' = ensureAllCardsHaveNumbers(cards)
    /\ UNCHANGED <<nextId, freed, file, pushed, currentFilter>>

LegacyNext == EnsureAllCardsHaveNumbers

LegacySpec == LegacyInit /\ [][LegacyNext]_vars

\* ----- imports of files written by another session

\* a field the file's card does not have
NoField == [x \in {} |-> 0]

\* cards of a file whose description links a card of the writing session
LinkingCards ==
    {[type |-> "local", id |-> x, description |-> [string |-> <<y>>]] :
        x \in 1..MaxFileIds, y \in 1..MaxFileIds}

\* cards of a file that carry the time stamps of the writing session
StampedCards ==
    {[type |-> "local", id |-> x, createdAt |-> 0, updatedAt |-> 0] :
        x \in 1..MaxFileIds}

\* the cards of a file: locations with or without id, with or without number,
\* adjacentLocations missing, empty or listing one id of the writing session,
\* and the cards with a description or with time stamps
FileCards ==
    {Merge([type |-> "local"], Merge(i, Merge(n, r))) :
        i \in {NoField} \cup {[id |-> x] : x \in 1..MaxFileIds},
        n \in {NoField, [number |-> 1]},
        r \in {NoField, [adjacentLocations |-> <<>>]}
                \cup {[adjacentLocations |-> <<x>>] : x \in 1..MaxFileIds}}
        \cup LinkingCards \cup StampedCards

ImportInit ==
    /\ cards = <<>>
    /\ nextId = MaxFileIds + 1
    /\ freed = [t \in Types |-> {}]
    /\ file = <<>>
    /\ pushed = <<>>
    /\ currentFilter = "all"

\* the cards an import pushes on the store cs, as they are when the try block
\* ends
pushedBy(cs, data, firstNewId) ==
    LET store == importedStore(cs, data, firstNewId)
    IN SubSeq(store, Len(cs) + 1, Len(store))

\* importCards: a file of one to MaxBatch cards is read and imported
ImportCards ==
    \E n \in 1..(MaxBatch - Len(cards)) : \E batch \in [1..n -> FileCards] :
        /\ cards' = importCards(cards, [cards |-> [array |-> batch]], nextId,
                                currentFilter)
        /\ nextId' = nextId + n
        /\ file' = batch
        /\ pushed' = pushedBy(cards, [cards |-> [array |-> batch]], nextId)
        /\ UNCHANGED <<freed, currentFilter>>

\* parsed files the import refuses: no cards field, or a cards field that is
\* not an array
MalformedPayloads ==
    {[version |-> "1.0"],
     [version |-> "1.0", cards |-> [string |-> "cards"]],
     [version |-> "1.0", cards |-> [object |-> "{}"]]}

\* importCards on a malformed file: no id is generated
ImportMalformed ==
    \E data \in MalformedPayloads :
        /\ cards' = importCards(cards, data, nextId, currentFilter)
        /\ UNCHANGED <<nextId, freed, file, pushed, currentFilter>>

ImportNext == ImportCards \/ ImportMalformed \/ SetFilter \/ FilterCardsList

ImportSpec == ImportInit /\ [][ImportNext]_vars

\* ----- imports of files with a card the second pass cannot process

\* cards of a file whose description is a number instead of a string
FaultyCards ==
    {[type |-> "local", id |-> x, description |-> [number |-> 5]] :
        x \in 1..MaxFileIds}

\* the batches of n cards with at least one faulty card
FaultyBatches(n) ==
    {batch \in [1..n -> FileCards \cup FaultyCards] :
        \E k \in 1..n : throws(batch[k])}

\* importCards on a file with a faulty card: every id of the first pass has
\* been generated when the second pass fails; at most MaxBatch ids are
\* generated in one behaviour before such an import
ImportFaulty ==
    \E n \in 1..(MaxBatch - Len(cards)) : \E batch \in FaultyBatches(n) :
        /\ nextId + n <= MaxFileIds + MaxBatch + 1
        /\ cards' = importCards(cards, [cards |-> [array |-> batch]], nextId,
                                currentFilter)
        /\ nextId' = nextId + n
        /\ file' = batch
        /\ pushed' = pushedBy(cards, [cards |-> [array |-> batch]], nextId)
        /\ UNCHANGED <<freed, currentFilter>>

ImportErrorNext == ImportCards \/ ImportFaulty \/ SetFilter \/ FilterCardsList

ImportErrorSpec == ImportInit /\ [][ImportErrorNext]_vars

\* ----- the store's operations against a clock

\* In StampSpec nextId is also the clock: every operation takes one tick, and
\* a created card takes the tick of its creation as its id.

\* cardData.bonds of a character, as the form hands it to the store: always
\* an array, the chips that are characters, none to MaxConnections of them
BondsArgs ==
    {[bonds |-> chips] :
        chips \in DistinctSeqs({cards[i].id :
                    i \in {j \in DOMAIN cards : cards[j].type = "personagem"}})}

CreateCardAt ==
    \E t \in Types, n \in FormNumbers, b \in BondsArgs :
        LET cardData == Merge(Merge([type |-> t], n),
                              IF t = "personagem" THEN b ELSE NoField)
        IN /\ nextId <= MaxClock
           /\ InBounds(createCardAt(cards, cardData, nextId, nextId))
           /\ cards' = createCardAt(cards, cardData, nextId, nextId)
           /\ nextId' = nextId + 1
           /\ UNCHANGED <<freed, file, pushed, currentFilter>>

UpdateCardAt ==
    \E id \in getCardIds(cards), n \in FormNumbers :
        /\ nextId <= MaxClock
        /\ InBounds(updateCardAt(cards, id, n, nextId))
        /\ cards' = updateCardAt(cards, id, n, nextId)
        /\ nextId' = nextId + 1
        /\ UNCHANGED <<freed, file, pushed, currentFilter>>

DeleteCardAt ==
    \E id \in getCardIds(cards) :
        /\ nextId <= MaxClock
        /\ cards' = deleteCard(cards, id)
        /\ nextId' = nextId + 1
        /\ UNCHANGED <<freed, file, pushed, currentFilter>>

StampNext == CreateCardAt \/ UpdateCardAt \/ DeleteCardAt

StampSpec == Init /\ [][StampNext]_vars

\* ======================================================================
\* Properties
\* ======================================================================

\* the numbers held by the cards of a type
NumbersOf(cs, type) == {cs[i].number : i \in {j \in DOMAIN cs : cs[j].type = type}}

Largest(S) == CHOOSE m \in S : \A x \in S : x <= m

UniquePerType(cs) ==
    \A i, j \in DOMAIN cs :
        (i # j /\ cs[i].type = cs[j].type) => cs[i].number # cs[j].number

\* id appears in some relationship field of card
Mentions(card, id) ==
    \E k \in DOMAIN connectionFields : Includes(Get(card, connectionFields[k]), id)

\* C1 (numbering uniqueness): in every state reachable by createCard,
\* updateCard and deleteCard calls, no two cards of the same type hold the
\* same number.
C1_NumberUniqueness == UniquePerType(cards)

\* C2 (reciprocity): after any sequence of saves and deletes, for existing
\* cards A and B matching a row of the mapping table, if A's source field
\* lists B then B's reciprocal field lists A.
C2_Reciprocity ==
    \A a, b \in DOMAIN cards :
        LET A == cards[a]
            B == cards[b]
        IN /\ (A.type = "evento" /\ B.type = "local"
                 /\ Includes(Get(A, "relatedLocations"), B.id))
                  => Includes(Get(B, "relatedEvents"), A.id)
           /\ (A.type = "evento" /\ B.type = "personagem"
                 /\ Includes(Get(A, "relatedCharacters"), B.id))
                  => Includes(Get(B, "relatedEvents"), A.id)
           /\ (A.type = "local" /\ B.type = "local"
                 /\ Includes(Get(A, "adjacentLocations"), B.id))
                  => Includes(Get(B, "adjacentLocations"), A.id)
           /\ (A.type = "local" /\ B.type = "personagem"
                 /\ Includes(Get(A, "presentCharacters"), B.id))
                  => Includes(Get(B, "presentLocations"), A.id)
           /\ (A.type = "personagem" /\ B.type = "personagem"
                 /\ Includes(Get(A, "bonds"), B.id))
                  => Includes(Get(B, "bonds"), A.id)

\* C3 (no dangling references after delete): in every reachable state,
\* deleting any card X (removeAllMutualConnections then deleteCard) leaves no
\* remaining card with X's id in any of its seven relationship fields.
C3_NoDanglingAfterDelete ==
    \A x \in getCardIds(cards) :
        LET after == confirmDeleteCard(cards, x, currentFilter) IN
        \A i \in DOMAIN after : ~Mentions(after[i], x)

\* C4 (reciprocal removal): in every reachable state, when saving an edit of
\* card A (its type left as it is) or deleting A removes B's id from a
\* relationship field of A, then afterwards no relationship field of B lists A.
C4_ReciprocalRemoval ==
    \A a \in getCardIds(cards) :
        LET A == getCard(cards, a) IN
        /\ \A n \in FormNumbers :
           \A conns \in EditChips(a) :
                LET after == handleFormSubmit(cards, a, A.type, n, conns, nextId,
                                              currentFilter) IN
                \A b \in getCardIds(after) \ {a} :
                    (\E k \in DOMAIN connectionFields :
                        /\ Includes(Get(A, connectionFields[k]), b)
                        /\ ~Includes(Get(getCard(after, a), connectionFields[k]), b))
                    => ~Mentions(getCard(after, b), a)
        /\ LET after == confirmDeleteCard(cards, a, currentFilter) IN
           \A b \in getCardIds(after) :
                Mentions(A, b) => ~Mentions(getCard(after, b), a)

\* C5 (symmetry of same-type links): after any sequence of saves and deletes,
\* for two existing characters B is in A.bonds iff A is in B.bonds, and for
\* two existing locations B is in A.adjacentLocations iff A is in
\* B.adjacentLocations.
C5_SymmetricLinks ==
    \A a, b \in DOMAIN cards :
        LET A == cards[a]
            B == cards[b]
        IN /\ (A.type = "personagem" /\ B.type = "personagem")
                => (Includes(Get(A, "bonds"), B.id) <=> Includes(Get(B, "bonds"), A.id))
           /\ (A.type = "local" /\ B.type = "local")
                => (Includes(Get(A, "adjacentLocations"), B.id)
                        <=> Includes(Get(B, "adjacentLocations"), A.id))

\* C6 (make-room shift on create): in every reachable state, createCard with
\* an explicit number n >= 1 already held by a card of the same type makes the
\* new card the only card of the type with number n, adds exactly 1 to every
\* earlier card of the type whose number was >= n, keeps the earlier cards of
\* the type with a number < n, and leaves no two cards of the type with the
\* same number.
C6_MakeRoomOnCreate ==
    \A t \in Types, n \in 1..MaxRequest :
        (n \in NumbersOf(cards, t)) =>
            LET after == createCard(cards, [type |-> t, number |-> n], nextId)
                new == after[Len(after)]
            IN /\ Len(after) = Len(cards) + 1
               /\ new.type = t /\ new.number = n
               /\ \A i \in DOMAIN cards :
                    /\ after[i].id = cards[i].id
                    /\ cards[i].type = t =>
                         after[i].number =
                            IF cards[i].number >= n THEN cards[i].number + 1
                            ELSE cards[i].number
               /\ \A i \in DOMAIN cards : after[i].type = t => after[i].number # n
               /\ \A i, j \in DOMAIN after :
                    (i # j /\ after[i].type = t /\ after[j].type = t)
                        => after[i].number # after[j].number

\* C7 (renumber on update): in every reachable state, updateCard(id, partial)
\* for an existing card, with partial.number different from the card's number
\* and equal to the number of another card of the same type (partial.type
\* absent or the card's own type), adds 1 to every other card of that type
\* with number >= partial.number and leaves the updated card the only card of
\* its type holding partial.number.
C7_RenumberOnUpdate ==
    \A id \in getCardIds(cards), p \in 1..MaxRequest, t \in TypeArgs :
        LET card == getCard(cards, id)
            partial == Merge(t, [number |-> p])
            others == {i \in DOMAIN cards :
                          cards[i].id # id /\ cards[i].type = card.type}
            after == updateCard(cards, id, partial)
        IN (/\ Has(t, "type") => t.type = card.type
            /\ p # card.number
            /\ \E i \in others : cards[i].number = p)
           => /\ \A i \in others :
                    cards[i].number >= p => after[i].number = cards[i].number + 1
              /\ getCard(after, id).number = p
              /\ \A i \in others : after[i].number # p

\* C8 (positive numbers): in every state reachable by createCard, updateCard
\* and deleteCard calls, every card's number is an integer >= 1.
C8_PositiveNumbers == \A i \in DOMAIN cards : cards[i].number >= 1

\* the number createCard gives a card of the type when none is asked for
AutoNumber(cs, type) ==
    LET after == createCard(cs, [type |-> type], nextId) IN after[Len(after)].number

\* C9 (freed numbers never handed out again), as claimed: after any sequence
\* of creates and deletes, getNextNumber(T), and createCard without a number,
\* never gives a number that a deleted card of type T held.
C9_FreedNeverReused ==
    \A t \in Types :
        getNextNumber(cards, t) \notin freed[t] /\ AutoNumber(cards, t) \notin freed[t]

\* C9, amended: after any sequence of creates and deletes, getNextNumber(T),
\* and createCard without a number, never gives a number freed by deletion
\* while a card of type T still holds that number or a larger one.
C9_FreedBelowLargestNeverReused ==
    \A t \in Types : \A n \in freed[t] :
        (\E m \in NumbersOf(cards, t) : m >= n)
            => (getNextNumber(cards, t) # n /\ AutoNumber(cards, t) # n)

\* a number freed by deletion lies below a number still held, nobody holds it,
\* and the next card of the type is numbered past the largest
C9_Witness ==
    \E t \in Types : \E n \in freed[t] :
        /\ n \notin NumbersOf(cards, t)
        /\ \E m \in NumbersOf(cards, t) : m > n
        /\ AutoNumber(cards, t) = Largest(NumbersOf(cards, t)) + 1

\* C10 (automatic numbering): in every reachable state, createCard with the
\* number absent or < 1 gives the new card number 1 when the store has no
\* card of that type and otherwise the largest number held by a card of that
\* type plus 1, whatever the cards of other types hold.
C10_AutomaticNumbering ==
    \A t \in Types, n \in NumberArgs :
        (~Has(n, "number") \/ n.number < 1) =>
            LET after == createCard(cards, Merge([type |-> t], n), nextId)
                new == after[Len(after)]
            IN /\ new.type = t
               /\ new.number = IF NumbersOf(cards, t) = {} THEN 1
                               ELSE Largest(NumbersOf(cards, t)) + 1

\* a type whose largest number exceeds its number of cards (a gap), another
\* type holding a still larger number, and the next automatic number of the
\* first type is its own largest number plus 1
C10_Witness ==
    \E t \in Types, u \in Types :
        /\ t # u
        /\ NumbersOf(cards, t) # {}
        /\ NumbersOf(cards, u) # {}
        /\ Largest(NumbersOf(cards, t)) > Cardinality({i \in DOMAIN cards : cards[i].type = t})
        /\ Largest(NumbersOf(cards, u)) > Largest(NumbersOf(cards, t))
        /\ AutoNumber(cards, t) = Largest(NumbersOf(cards, t)) + 1

\* C11 (delete does not renumber): in every reachable state, deleteCard(id)
\* removes the card and leaves the id and the number of every remaining card
\* as they were, so the gap left by the deleted card stays.
C11_DeleteKeepsNumbers ==
    \A id \in getCardIds(cards) :
        LET index == findIndex(cards, id)
            after == deleteCard(cards, id)
        IN /\ Len(after) = Len(cards) - 1
           /\ \A i \in DOMAIN after :
                LET old == IF i < index THEN cards[i] ELSE cards[i + 1] IN
                /\ after[i].id = old.id
                /\ after[i].number = old.number

\* three cards of a type numbered 1, 2, 3: deleting #2 leaves {1, 3}
C11_Witness ==
    \E t \in Types : \E id \in getCardIds(cards) :
        /\ NumbersOf(cards, t) = {1, 2, 3}
        /\ getCard(cards, id).type = t
        /\ getCard(cards, id).number = 2
        /\ NumbersOf(deleteCard(cards, id), t) = {1, 3}

\* the type a relationship field targets
targetTypeOf(field) ==
    IF field \in {"relatedLocations", "adjacentLocations", "presentLocations"}
    THEN "local"
    ELSE IF field \in {"relatedCharacters", "presentCharacters", "bonds"}
    THEN "personagem"
    ELSE "evento"

\* C12 (no self-loops, no wrong-type references): in every state reachable by
\* saves and deletes, no relationship field of a card lists the card's own id,
\* and every id listed in a relationship field that is the id of a card of
\* the store is the id of a card of the type the field targets.
C12_NoSelfLoopNoWrongType ==
    \A i \in DOMAIN cards : \A k \in DOMAIN connectionFields :
        LET field == connectionFields[k]
            listed == Get(cards[i], field)
        IN /\ ~Includes(listed, cards[i].id)
           /\ \A j \in DOMAIN cards :
                Includes(listed, cards[j].id) => cards[j].type = targetTypeOf(field)

\* C13 (identity and type immutable): in every reachable state, updateCard
\* with any partial (a type or none, a number or none) leaves the id and the
\* type of the updated card as they were.
C13_IdAndTypeImmutable ==
    \A id \in getCardIds(cards), t \in TypeArgs, n \in NumberArgs :
        LET index == findIndex(cards, id)
            after == updateCard(cards, id, Merge(t, n))
        IN /\ after[index].id = cards[index].id
           /\ after[index].type = cards[index].type

\* cardData createCard is claimed to reject: an unknown type, an empty name
InvalidCardData ==
    {[type |-> "outro", name |-> "x"], [type |-> "evento", name |-> ""]}

\* C14 (create validation): in every reachable state, createCard with a type
\* outside the three known types, or with an empty name, leaves the card
\* collection exactly as it was.
C14_CreateValidation ==
    \A cardData \in InvalidCardData : createCard(cards, cardData, nextId) = cards

\* the card has a number >= 1
ValidNumber(card) == Truthy(card) /\ card.number >= 1

\* C15 (legacy renumber post-condition): for every stored collection, after
\* ensureAllCardsHaveNumbers every card has a number >= 1, no two cards of a
\* type share a number, and every card whose number was >= 1 keeps it.
C15_LegacyPostCondition ==
    LET after == ensureAllCardsHaveNumbers(cards) IN
    /\ \A i \in DOMAIN after : ValidNumber(after[i])
    /\ UniquePerType(after)
    /\ \A i \in DOMAIN cards :
            ValidNumber(cards[i]) => after[i].number = cards[i].number

\* C16 (legacy renumber idempotent): for every stored collection, running
\* ensureAllCardsHaveNumbers twice in a row gives the same collection as
\* running it once.
C16_LegacyIdempotent ==
    ensureAllCardsHaveNumbers(ensureAllCardsHaveNumbers(cards))
        = ensureAllCardsHaveNumbers(cards)

\* two cards of a type, the later one in the array created first, one with a
\* valid number and one without: the first pass numbers the card, the second
\* changes nothing
C16_Witness ==
    \E i, j \in DOMAIN cards :
        /\ i < j
        /\ cards[i].type = cards[j].type
        /\ createdAtOf(cards[i]) > createdAtOf(cards[j])
        /\ ValidNumber(cards[i]) /\ ~ValidNumber(cards[j])
        /\ ensureAllCardsHaveNumbers(cards) # cards
        /\ ValidNumber(ensureAllCardsHaveNumbers(cards)[j])
        /\ ensureAllCardsHaveNumbers(ensureAllCardsHaveNumbers(cards))
                = ensureAllCardsHaveNumbers(cards)

\* the card of the store made from card k of the file last imported
importedCard(k) == pushed[k]

\* C17 (import round trip): for every store reachable by saves and deletes,
\* importing its export into an empty store gives one card per exported card,
\* of the same type, and each of its seven relationship fields lists exactly
\* the new ids of the cards the original field listed.  The imported cards
\* are taken in the order of the file, as the store holds them before the
\* list is rendered.
C17_ImportRoundTrip ==
    cards # <<>> =>
        LET after == importedStore(<<>>, exportCards(cards), nextId)
            newIdsOf(old) == {after[j].id : j \in {j \in DOMAIN cards : cards[j].id = old}}
        IN /\ Len(after) = Len(cards)
           /\ \A i \in DOMAIN cards :
                /\ after[i].type = cards[i].type
                /\ \A k \in DOMAIN connectionFields :
                     LET was == Get(cards[i], connectionFields[k])
                         now == Get(after[i], connectionFields[k])
                     IN /\ Len(now) = Len(was)
                        /\ \A x \in DOMAIN was : now[x] \in newIdsOf(was[x])

\* C18 (import drops unresolved references): after an import, no relationship
\* field of an imported card lists an id of the file's card that was not a
\* key of the id mapping built for the file.
C18_ImportDropsUnresolved ==
    \A k \in DOMAIN file : \A f \in DOMAIN connectionFields :
        \A x \in Range(Get(file[k], connectionFields[f])) :
            x \notin DOMAIN idMapping(file, nextId, Len(file))
                => ~Includes(Get(importedCard(k), connectionFields[f]), x)

\* C19 (references resolved whatever the order in the file): after an import,
\* if card A of the file lists the id of card B of the file in
\* adjacentLocations, the card made from A lists the id of the card made from
\* B there, B coming before or after A in the file.
C19_ImportResolvesAnyOrder ==
    \A a, b \in DOMAIN file :
        (Has(file[b], "id") /\ Includes(Get(file[a], "adjacentLocations"), file[b].id))
            => Includes(Get(importedCard(a), "adjacentLocations"), importedCard(b).id)

\* a file whose first card lists the id of its second card: the card made
\* from the first lists the new id of the second, not the id of the file
C19_Witness ==
    \E a, b \in DOMAIN file :
        /\ a < b
        /\ Has(file[a], "id") /\ Has(file[b], "id") /\ file[a].id # file[b].id
        /\ Get(file[a], "adjacentLocations") = <<file[b].id>>
        /\ importedCard(b).id # file[b].id
        /\ Get(importedCard(a), "adjacentLocations") = <<importedCard(b).id>>

\* C20 (import assigns fresh, distinct ids): after any import, no two cards of
\* the store have the same id, and no imported card has the id its card had
\* in the file.
C20_ImportFreshDistinctIds ==
    /\ \A i, j \in DOMAIN cards : i # j => cards[i].id # cards[j].id
    /\ \A k \in DOMAIN file :
            Has(file[k], "id") => importedCard(k).id # file[k].id

\* C21 (malformed import payload rejected without effect): in every state, an
\* import of a parsed file without cards field, or whose cards field is not
\* an array, ends on the error path and leaves the card collection as it was.
C21_MalformedImportNoEffect ==
    \A data \in MalformedPayloads :
        /\ invalidFormat(data)
        /\ importCards(cards, data, nextId, currentFilter) = cards

\* a store filled by an earlier import on which a malformed file is imported
C21_Witness ==
    /\ Len(cards) = MaxBatch
    /\ \E data \in MalformedPayloads :
            /\ Has(data, "cards")
            /\ importCards(cards, data, nextId, currentFilter) = cards

\* C22 (operations on a missing id are no-ops): in every reachable state, for
\* an id that no card of the store has, updateCard with any partial returns
\* null and deleteCard returns false, and both leave the collection exactly
\* as it was.
C22_MissingIdNoOp ==
    \A id \in (1..MaxIds) \ getCardIds(cards), t \in TypeArgs, n \in NumberArgs :
        /\ updateCard(cards, id, Merge(t, n)) = cards
        /\ updateCardReturn(cards, id, Merge(t, n)) = NoCard
        /\ deleteCard(cards, id) = cards
        /\ deleteCardReturn(cards, id) = FALSE

\* two cards in the store and the id of a card deleted earlier: updating or
\* deleting that id changes nothing
C22_Witness ==
    \E id \in 1..MaxIds :
        /\ id < nextId
        /\ id \notin getCardIds(cards)
        /\ Len(cards) >= 2
        /\ updateCard(cards, id, [type |-> "local", number |-> 1]) = cards
        /\ deleteCard(cards, id) = cards

\* C23 (update preserves the number when none is given): in every reachable
\* state, updateCard of an existing card with a partial that has no number
\* (with a type or without one) leaves the number of that card and of every
\* other card as it was.
C23_UpdateKeepsNumber ==
    \A id \in getCardIds(cards), t \in TypeArgs :
        LET after == updateCard(cards, id, t) IN
        /\ Len(after) = Len(cards)
        /\ \A i \in DOMAIN cards :
                after[i].id = cards[i].id /\ after[i].number = cards[i].number

\* a card updated with a type under which another card holds the same
\* number, and with no number: both keep their numbers
C23_Witness ==
    \E id \in getCardIds(cards), t \in Types :
        LET card == getCard(cards, id)
            after == updateCard(cards, id, [type |-> t])
        IN /\ card.type # t
           /\ card.number > 1
           /\ \E i \in DOMAIN cards :
                cards[i].type = t /\ cards[i].number = card.number
           /\ getCard(after, id).type = t
           /\ getCard(after, id).number = card.number

\* ids that are the id of no card of the store: ids of deleted cards and ids
\* not yet handed out
UnknownIds == (1..(MaxIds + 1)) \ getCardIds(cards)

\* the mapped source fields of a card type
SourceFields(type) ==
    {connectionMappings(type)[m][1] : m \in DOMAIN connectionMappings(type)}

\* ids a source field of card A may list: the other cards of the type the
\* field targets, and the unknown ids
FieldChoices(A, field) ==
    {cards[i].id : i \in {j \in DOMAIN cards :
        cards[j].type = targetTypeOf(field) /\ cards[j].id # A.id}} \cup UnknownIds

\* s without the ids of U
RECURSIVE WithoutAll(_, _)
WithoutAll(s, U) ==
    IF s = <<>> THEN <<>>
    ELSE (IF Head(s) \in U THEN <<>> ELSE <<Head(s)>>) \o WithoutAll(Tail(s), U)

\* C24 (sync tolerates unknown targets): in every reachable state, when card A
\* is saved with a mapped field that lists ids of no card among ids of cards,
\* updateMutualConnections gives the store it gives when the unknown ids are
\* left out of the saved and of the previous lists (no card is changed for
\* them), and every card newly listed has A's id in one of its fields
\* afterwards.
C24_SyncToleratesUnknown ==
    \A a \in DOMAIN cards : \A field \in SourceFields(cards[a].type) :
        \A conns \in DistinctSeqs(FieldChoices(cards[a], field)) :
            LET A == cards[a]
                cardData == [k \in {field} |-> conns]
                known == [k \in {field} |-> WithoutAll(conns, UnknownIds)]
                previous == previousConnectionsOf(A)
                knownPrevious == [k \in DOMAIN previous |->
                                    WithoutAll(previous[k], UnknownIds)]
                saved == updateCard(cards, A.id, cardData)
                after == updateMutualConnections(saved, getCard(saved, A.id),
                                                 cardData, previous)
            IN /\ after = updateMutualConnections(saved, getCard(saved, A.id),
                                                  known, knownPrevious)
               /\ getCardIds(after) = getCardIds(cards)
               /\ \A b \in Range(known[field]) \ Range(Get(previous, field)) :
                    Mentions(getCard(after, b), A.id)

\* a card saved with a field listing an unknown id and then the id of a card
\* that did not list it: the card gets the reciprocal
C24_Witness ==
    \E a, b \in DOMAIN cards : \E field \in SourceFields(cards[a].type) :
        \E u \in UnknownIds :
            LET A == cards[a]
                cardData == [k \in {field} |-> <<u, cards[b].id>>]
                saved == updateCard(cards, A.id, cardData)
                after == updateMutualConnections(saved, getCard(saved, A.id),
                                                 cardData, previousConnectionsOf(A))
            IN /\ a # b
               /\ cards[b].type = targetTypeOf(field)
               /\ ~Mentions(cards[b], A.id)
               /\ Mentions(getCard(after, cards[b].id), A.id)
               /\ Len(after) = Len(cards)

\* how many times id occurs in s
RECURSIVE Occurrences(_, _)
Occurrences(s, id) ==
    IF s = <<>> THEN 0
    ELSE (IF Head(s) = id THEN 1 ELSE 0) + Occurrences(Tail(s), id)

\* the targetField the table gives for a source field of a card type
targetFieldOf(type, field) ==
    LET m == CHOOSE k \in DOMAIN connectionMappings(type) :
                connectionMappings(type)[k][1] = field
    IN connectionMappings(type)[m][2]

\* C25 (sync writes the reciprocal named by the table): in every state
\* reachable by saves and deletes, after any edit of a card A is saved and
\* synchronised, every card B that A's saved value of a mapped field lists,
\* that the previous value did not list and that is in the store has A's id
\* exactly once in the field chosen by (B's type, A's type).
C25_ReciprocalByTable ==
    \A a \in getCardIds(cards), t \in Types : \A conns \in EditChips(a) :
        LET cardData == formCardData(cards, t, NoNumber, conns)
            previous == previousConnectionsOf(getCard(cards, a))
            saved == updateCard(cards, a, cardData)
            after == updateMutualConnections(saved, getCard(saved, a),
                                             cardData, previous)
            A == getCard(after, a)
        IN \A field \in SourceFields(A.type) :
             \A b \in (Range(Get(A, field)) \ Range(Get(previous, field)))
                        \cap getCardIds(after) :
                LET B == getCard(after, b)
                IN Occurrences(Get(B, fieldToUpdate(B.type, A.type,
                                                   targetFieldOf(A.type, field))),
                               a) = 1

\* the ids sync handles for card A: added to or removed from a mapped field
diffOf(type, cardData, previous) ==
    UNION {(Range(Get(cardData, field)) \ Range(Get(previous, field)))
            \cup (Range(Get(previous, field)) \ Range(Get(cardData, field)))
           : field \in SourceFields(type)}

\* after differs from before only on the cards of diff, and there only by
\* the presence of id a in relationship fields
OnlyTouchesDiff(before, after, diff, a) ==
    /\ Len(after) = Len(before)
    /\ \A i \in DOMAIN before :
        /\ after[i].id = before[i].id
        /\ before[i].id \notin diff => after[i] = before[i]
        /\ \A k \in DOMAIN before[i] \ Range(connectionFields) :
                k \in DOMAIN after[i] /\ after[i][k] = before[i][k]
        /\ DOMAIN after[i] \ DOMAIN before[i] \subseteq Range(connectionFields)
        /\ \A f \in Range(connectionFields) :
                Without(Get(after[i], f), a) = Without(Get(before[i], f), a)

\* C26 (sync only touches what changed): in every state reachable by saves
\* and deletes, the synchronisation that follows the save of a new or of an
\* edited card A changes only cards whose id was added to or removed from one
\* of A's mapped fields, and on those cards only the presence of A's id: every
\* other id of every relationship field keeps its presence and its order, and
\* every other card is unchanged.
C26_SyncOnlyTouchesDiff ==
    /\ \A a \in getCardIds(cards), n \in FormNumbers : \A conns \in EditChips(a) :
        LET type == getCard(cards, a).type
            cardData == formCardData(cards, type, n, conns)
            previous == previousConnectionsOf(getCard(cards, a))
            saved == updateCard(cards, a, cardData)
            after == updateMutualConnections(saved, getCard(saved, a),
                                             cardData, previous)
        IN OnlyTouchesDiff(saved, after, diffOf(type, cardData, previous), a)
    /\ \A t \in Types, n \in FormNumbers : \A conns \in DistinctSeqs(getCardIds(cards)) :
        LET cardData == formCardData(cards, t, n, conns)
            created == createCard(cards, cardData, nextId)
            after == updateMutualConnections(created, created[Len(created)],
                                             cardData, NoPrevious)
        IN OnlyTouchesDiff(created, after, diffOf(t, cardData, NoPrevious), nextId)

\* a card A that drops card B from a mapped field while B lists A next to a
\* third card C, and C is outside the diff and has links of its own: the sync
\* changes B and nothing of C
C26_Witness ==
    \E a, b, c \in getCardIds(cards) :
        LET type == getCard(cards, a).type
            cardData == formCardData(cards, type, NoNumber, <<>>)
            previous == previousConnectionsOf(getCard(cards, a))
            saved == updateCard(cards, a, cardData)
            after == updateMutualConnections(saved, getCard(saved, a),
                                             cardData, previous)
        IN /\ a # b /\ b # c /\ a # c
           /\ diffOf(type, cardData, previous) = {b}
           /\ \E f \in Range(connectionFields) :
                /\ Includes(Get(getCard(saved, b), f), a)
                /\ Includes(Get(getCard(saved, b), f), c)
                /\ Get(getCard(after, b), f) = <<c>>
           /\ Mentions(getCard(after, c), b)
           /\ getCard(after, c) = getCard(saved, c)

\* C27 (deletion strips the deleted card from everything it referenced): in
\* every state reachable by saves and deletes, for every card X, after
\* removeAllMutualConnections(X) card X is still in the store and no card
\* listed in one of X's seven relationship fields has X's id in any of its
\* own; the confirmed delete is deleteCard applied to that store (and the
\* list rendered), it removes X, and in its result no card X listed has X's
\* id in any field.
C27_DeleteStripsReciprocals ==
    \A x \in getCardIds(cards) :
        LET X == getCard(cards, x)
            stripped == removeAllMutualConnections(cards, X)
            after == confirmDeleteCard(cards, x, currentFilter)
        IN /\ getCardIds(stripped) = getCardIds(cards)
           /\ \A b \in loadedConnections(X) \cap getCardIds(stripped) :
                ~Mentions(getCard(stripped, b), x)
           /\ after = renderCardsList(deleteCard(stripped, x), currentFilter)
           /\ getCardIds(after) = getCardIds(cards) \ {x}
           /\ \A b \in loadedConnections(X) \cap getCardIds(after) :
                ~Mentions(getCard(after, b), x)

\* an event X and a place that list each other (relatedEvents is not a field
\* deleteCard scrubs): after the confirmed delete the place is there and does
\* not list X
C27_Witness ==
    \E x, b \in getCardIds(cards) :
        /\ Includes(Get(getCard(cards, x), "relatedLocations"), b)
        /\ Includes(Get(getCard(cards, b), "relatedEvents"), x)
        /\ Mentions(getCard(deleteCard(cards, x), b), x)
        /\ b \in getCardIds(confirmDeleteCard(cards, x, currentFilter))
        /\ ~Mentions(getCard(confirmDeleteCard(cards, x, currentFilter), b), x)

\* the card without its updatedAt
Unstamped(card) == [k \in DOMAIN card \ {"updatedAt"} |-> card[k]]

\* every card of before that is in after keeps its createdAt and, when one of
\* its other fields differs, has updatedAt = now
StampedAt(before, after, now) ==
    \A i \in DOMAIN before, j \in DOMAIN after :
        (before[i].id = after[j].id) =>
            /\ after[j].createdAt = before[i].createdAt
            /\ (Unstamped(after[j]) # Unstamped(before[i]))
                    => after[j].updatedAt = now

\* C28 (updatedAt tracks every mutation): in every reachable state, an
\* updateCard, a createCard (whose number shift changes other cards) or a
\* deleteCard (whose scrub changes other cards) at time now leaves every card
\* it changed with updatedAt = now, and every card with the createdAt it had.
C28_UpdatedAtTracksMutation ==
    /\ \A id \in getCardIds(cards), n \in FormNumbers :
            StampedAt(cards, updateCardAt(cards, id, n, nextId), nextId)
    /\ \A t \in Types, n \in FormNumbers, b \in BondsArgs :
            StampedAt(cards,
                      createCardAt(cards,
                                   Merge(Merge([type |-> t], n),
                                         IF t = "personagem" THEN b ELSE NoField),
                                   nextId, nextId),
                      nextId)
    /\ \A id \in getCardIds(cards) :
            StampedAt(cards, deleteCard(cards, id), nextId)

\* C29 (numbers stay unique across import): in every state reachable by
\* imports whose numbers are unique per type, importing any well-formed batch
\* (cards with or without a number, the final ensureAllCardsHaveNumbers pass
\* included) gives a store in which no two cards of a type share a number.
C29_ImportKeepsNumbersUnique ==
    UniquePerType(cards) =>
        \A n \in 1..(MaxBatch - Len(cards)) : \A batch \in [1..n -> FileCards] :
            UniquePerType(importCards(cards, [cards |-> [array |-> batch]],
                                      nextId, currentFilter))

\* C30 (import is all-or-nothing): in every state reachable by imports, an
\* import that ends in the catch branch because the second pass fails on a
\* card of the file, the first or a later one, leaves the card collection as
\* it was before the import.
C30_ImportAllOrNothing ==
    \A n \in 1..(MaxBatch - Len(cards)) : \A batch \in FaultyBatches(n) :
        importCards(cards, [cards |-> [array |-> batch]], nextId, currentFilter) = cards

====
